---------------------------- MODULE Spec2Model ----------------------------
(***************************************************************************)
(* Model of the schnorr package (src/schnorr/schnorr.go) and of its demo   *)
(* program (src/main.go).                                                  *)
(*                                                                         *)
(* Every *big.Int of the program is a cell of `heap`; a big.Int method     *)
(* z.Op(x, y) overwrites the cell z names and leaves the others alone, so  *)
(* aliasing (sk.p and pk.p are one object, g.Exp(g, p, p) overwrites its   *)
(* own argument) is modelled as it is in the program.                      *)
(*                                                                         *)
(* Scaling.  The program draws 256-bit primes and hashes with SHA-256.     *)
(* The model draws its primes from 3..MaxPrime and replaces SHA-256 by a   *)
(* small deterministic mixing function with a DigestLen-byte digest.  No   *)
(* property below is settled by a property of that mixing function.        *)
(*                                                                         *)
(* Spec is a caller of the package that generates its key pair K1, and    *)
(* perhaps a second pair K2, and then calls Sign, VerifySignature and      *)
(* BlindSignatureProcess in any order.  It signs with K1 and may pass the  *)
(* public key of either pair.  MainSpec is the program main.               *)
(***************************************************************************)
EXTENDS Integers, Sequences, FiniteSets, TLC

VARIABLES
    heap,   \* the value of every big.Int object
    keys,   \* the key pairs GenerateKeys has returned
    cur,    \* the key pair GenerateKeys is building ("none" outside a call)
    pc,     \* position of the running program
    signed, \* what the Signature object held by the caller was made from
    last,   \* the most recent call of the package: arguments and results
    out,    \* standard output of main, one entry per line
    rnd     \* main: the numbers rand.Reader yields to the call about to run

vars == <<heap, keys, cur, pc, signed, last, out, rnd>>

(***************************** bounds **************************************)

\* rand.Prime(rand.Reader, bits) draws here a prime in 3..MaxPrime.
MaxPrime == 6

\* Bytes of a digest (32 for SHA-256).
DigestLen == 1

(***************************** objects *************************************)

KeySlots == {"K1", "K2"}

KeyCell == [K1 |-> [p |-> "K1.p", g |-> "K1.g", x |-> "K1.x", X |-> "K1.X"],
            K2 |-> [p |-> "K2.p", g |-> "K2.g", x |-> "K2.x", X |-> "K2.X"]]

KeyCells(k) == {KeyCell[k].p, KeyCell[k].g, KeyCell[k].x, KeyCell[k].X}

SigCells == {"sig.R", "sig.s"}

SignLocals == {"s.r", "s.cInt"}

VerifyLocals == {"v.sg", "v.cInt", "v.cx", "v.rcx"}

BlindLocals == {"b.r", "b.R", "b.a", "b.b", "b.ag", "b.bX", "b.RP", "b.cpInt",
                "b.c", "b.s", "b.sg", "b.cx", "b.rcx", "b.sp"}

Addr == KeyCells("K1") \cup KeyCells("K2") \cup SigCells \cup SignLocals
        \cup VerifyLocals \cup BlindLocals

\* type SignatureKey struct { p, g, x *big.Int }
SignatureKey(k) == [p |-> KeyCell[k].p, g |-> KeyCell[k].g, x |-> KeyCell[k].x]

\* type PublicKey struct { p, g, X *big.Int }: p and g are the objects of
\* the SignatureKey returned with it.
PublicKey(k) == [p |-> KeyCell[k].p, g |-> KeyCell[k].g, X |-> KeyCell[k].X]

(***************************** math/big ************************************)

RECURSIVE Pow(_, _)
Pow(x, y) == IF y = 0 THEN 1 ELSE x * Pow(x, y - 1)

RECURSIVE ExpMod(_, _, _)
ExpMod(x, y, m) == IF y = 0 THEN 1 % m ELSE (x * ExpMod(x, y - 1, m)) % m

\* The value rand.Int, rand.Prime, big.NewInt or SetBytes gives a new Int
Set(h, z, v) == [h EXCEPT ![z] = v]

\* In the operators below the heap h is bound once (hh \in {h}) and then
\* read, so that a chain of operations is evaluated once.

\* z.Mul(x, y)
Mul(h, z, x, y) ==
    CHOOSE r \in {[hh EXCEPT ![z] = hh[x] * hh[y]] : hh \in {h}} : TRUE

\* z.Add(x, y)
Add(h, z, x, y) ==
    CHOOSE r \in {[hh EXCEPT ![z] = hh[x] + hh[y]] : hh \in {h}} : TRUE

\* z.Mod(x, m): Euclidean modulus, as % is for m > 0
Mod(h, z, x, m) ==
    CHOOSE r \in {[hh EXCEPT ![z] = hh[x] % hh[m]] : hh \in {h}} : TRUE

\* z.Exp(x, y, m) for y > 0, m > 0
Exp(h, z, x, y, m) ==
    CHOOSE r \in {[hh EXCEPT ![z] = ExpMod(hh[x], hh[y], hh[m])] : hh \in {h}} : TRUE

\* x.Cmp(y)
Cmp(h, x, y) ==
    CHOOSE r \in {IF hh[x] < hh[y] THEN -1 ELSE IF hh[x] > hh[y] THEN 1 ELSE 0 :
                  hh \in {h}} : TRUE

\* Objects nothing refers to any more (the locals of a call that returned)
Free(h, cells) ==
    CHOOSE r \in {[a \in Addr |-> IF a \in cells THEN 0 ELSE hh[a]] : hh \in {h}} : TRUE

(***************************** strings, hash *******************************)

\* "hello", the message of main
Hello == <<104, 101, 108, 108, 111>>

\* "hallo"
Hallo == <<104, 97, 108, 108, 111>>

Messages == {Hello, Hallo}

\* (*big.Int).String(): the decimal digits, '-' first for a negative value
RECURSIVE Digits(_)
Digits(n) == IF n < 10 THEN <<48 + n>> ELSE Digits(n \div 10) \o <<48 + (n % 10)>>

String(n) == IF n < 0 THEN <<45>> \o Digits(-n) ELSE Digits(n)

DigestMod == Pow(256, DigestLen)

\* (*big.Int).SetBytes: the bytes as a big-endian unsigned integer
RECURSIVE SetBytes(_)
SetBytes(b) == IF b = <<>> THEN 0
               ELSE Head(b) * Pow(256, Len(b) - 1) + SetBytes(Tail(b))

\* The first i bytes of s mixed into one number below DigestMod
RECURSIVE Mix(_, _)
Mix(s, i) == IF i = 0 THEN 5381 % DigestMod
             ELSE (Mix(s, i - 1) * 33 + s[i] + 1) % DigestMod

\* hash(s) = sha256.Sum256([]byte(s)): here DigestLen bytes, big-endian,
\* of a mixing function of the bytes of s.
hash(s) ==
    CHOOSE r \in {[i \in 1..DigestLen |-> (v \div Pow(256, DigestLen - i)) % 256] :
                  v \in {Mix(s, Len(s))}} : TRUE

\* c := hash(R.String() + m); cInt := new(big.Int).SetBytes(c[:]), with z
\* the new Int
SetHash(h, z, R, m) ==
    CHOOSE r \in {[hh EXCEPT ![z] = SetBytes(hash(String(hh[R]) \o m))] :
                  hh \in {h}} : TRUE

(***************************** key generation ******************************)

IsPrime(q) == q > 1 /\ \A d \in 2..(q - 1) : q % d # 0

Primes == {q \in 3..MaxPrime : IsPrime(q)}

\* generateMultiplicativeGroup, before the loop: p is drawn, g := 2
GroupDraw(h, k, q) == Set(Set(h, KeyCell[k].p, q), KeyCell[k].g, 2)

\* Faulty variant: the modulus is left out of g.Exp.
GroupTestNoModulus(h, k) ==
    Set(h, KeyCell[k].g, Pow(h[KeyCell[k].g], h[KeyCell[k].p]))

\* g.Exp(g, p, p): the receiver is g itself, so g is overwritten with
\* g^p mod p
GroupTest(h, k) == Exp(h, KeyCell[k].g, KeyCell[k].g, KeyCell[k].p, KeyCell[k].p)

\* Faulty variant: the public value is reduced modulo p.
KeyDrawReduced(h, k, x) ==
    LET h1 == Set(h, KeyCell[k].x, x)
        h2 == Mul(h1, KeyCell[k].X, KeyCell[k].x, KeyCell[k].g)
    IN  Mod(h2, KeyCell[k].X, KeyCell[k].X, KeyCell[k].p)

\* GenerateKeys after the group is made: x is drawn, X := x * g
KeyDraw(h, k, x) ==
    LET h1 == Set(h, KeyCell[k].x, x)
    IN  Mul(h1, KeyCell[k].X, KeyCell[k].x, KeyCell[k].g)

(***************************** Sign ****************************************)

\* The Signature Sign returns: &Signature{R, s}
SignResult == [R |-> "sig.R", s |-> "sig.s"]

\* Faulty variant: the product c*x is written into the key's x instead of a new Int.
SignIntoKey(h, m, sk, r) ==
    LET h1 == Set(h, "s.r", r)
        h2 == Mul(h1, "sig.R", "s.r", sk.g)
        h3 == SetHash(h2, "s.cInt", "sig.R", m)
        h4 == Mul(h3, sk.x, "s.cInt", sk.x)
        h5 == Add(h4, "sig.s", "s.r", sk.x)
        h6 == Mod(h5, "sig.s", "sig.s", sk.p)
    IN  Free(h6, SignLocals)

\* Sign(m, sk) with nonce r: the heap when it returns SignResult
Sign(h, m, sk, r) ==
    LET h1 == Set(h, "s.r", r)
        h2 == Mul(h1, "sig.R", "s.r", sk.g)
        h3 == SetHash(h2, "s.cInt", "sig.R", m)
        h4 == Mul(h3, "sig.s", "s.cInt", sk.x)
        h5 == Add(h4, "sig.s", "s.r", "sig.s")
        h6 == Mod(h5, "sig.s", "sig.s", sk.p)
    IN  Free(h6, SignLocals)

(***************************** VerifySignature *****************************)

\* Faulty variant: the right side R + cX is compared without being reduced.
VerifyNoReduce(h, message, signature, publicKey) ==
    LET h1 == Mul(h, "v.sg", signature.s, publicKey.g)
        h2 == Mod(h1, "v.sg", "v.sg", publicKey.p)
        h3 == SetHash(h2, "v.cInt", signature.R, message)
        h4 == Mul(h3, "v.cx", "v.cInt", publicKey.X)
        h5 == Add(h4, "v.rcx", signature.R, "v.cx")
    IN  CHOOSE r \in {[heap |-> Free(hh, VerifyLocals),
                       ok |-> Cmp(hh, "v.sg", "v.rcx") = 0] : hh \in {h5}} : TRUE

\* VerifySignature(message, signature, publicKey): the heap when it
\* returns and the result.
VerifySignature(h, message, signature, publicKey) ==
    LET h1 == Mul(h, "v.sg", signature.s, publicKey.g)
        h2 == Mod(h1, "v.sg", "v.sg", publicKey.p)
        h3 == SetHash(h2, "v.cInt", signature.R, message)
        h4 == Mul(h3, "v.cx", "v.cInt", publicKey.X)
        h5 == Add(h4, "v.rcx", signature.R, "v.cx")
        h6 == Mod(h5, "v.rcx", "v.rcx", publicKey.p)
    IN  CHOOSE r \in {[heap |-> Free(hh, VerifyLocals),
                       ok |-> Cmp(hh, "v.sg", "v.rcx") = 0] : hh \in {h6}} : TRUE

(***************************** BlindSignatureProcess ***********************)

BlindHeader == "### Blind Schnorr Signature ###"

PartialValid == "Signature received from Signer by User is valid!"

PartialInvalid == "Signature received from Signer by User is invalid!"

UserValid == "Signature created by User is valid!"

UserInvalid == "Signature created by User is invalid!"

\* Step 1: the Signer's nonce r and R := r * g
BlindCommit(h, publicKey, r) ==
    LET h1 == Set(h, "b.r", r)
    IN  Mul(h1, "b.R", "b.r", publicKey.g)

\* Faulty variant: the challenge is blinded with alpha instead of beta.
BlindChallengeWrongFactor(h, message, publicKey, a, b) ==
    LET h1 == Set(h, "b.a", a)
        h2 == Set(h1, "b.b", b)
        h3 == Mul(h2, "b.ag", "b.a", publicKey.g)
        h4 == Add(h3, "b.RP", "b.R", "b.ag")
        h5 == Mul(h4, "b.bX", "b.b", publicKey.X)
        h6 == Add(h5, "b.RP", "b.RP", "b.bX")
        h7 == SetHash(h6, "b.cpInt", "b.RP", message)
        h8 == Add(h7, "b.c", "b.cpInt", "b.a")
    IN  Mod(h8, "b.c", "b.c", publicKey.p)

\* Step 2: the User's alpha and beta, R' := R + alpha*g + beta*X,
\* c' := H(R'||m), c := (c' + beta) mod p
BlindChallenge(h, message, publicKey, a, b) ==
    LET h1 == Set(h, "b.a", a)
        h2 == Set(h1, "b.b", b)
        h3 == Mul(h2, "b.ag", "b.a", publicKey.g)
        h4 == Add(h3, "b.RP", "b.R", "b.ag")
        h5 == Mul(h4, "b.bX", "b.b", publicKey.X)
        h6 == Add(h5, "b.RP", "b.RP", "b.bX")
        h7 == SetHash(h6, "b.cpInt", "b.RP", message)
        h8 == Add(h7, "b.c", "b.cpInt", "b.b")
    IN  Mod(h8, "b.c", "b.c", publicKey.p)

\* Faulty variant: the Signer multiplies the unblinded challenge c' by x.
BlindResponseUnblinded(h, signerSignatureKey) ==
    LET h1 == Mul(h, "b.s", "b.cpInt", signerSignatureKey.x)
        h2 == Add(h1, "b.s", "b.s", "b.r")
    IN  Mod(h2, "b.s", "b.s", signerSignatureKey.p)

\* Step 3: the Signer's s := (c*x + r) mod p
BlindResponse(h, signerSignatureKey) ==
    LET h1 == Mul(h, "b.s", "b.c", signerSignatureKey.x)
        h2 == Add(h1, "b.s", "b.s", "b.r")
    IN  Mod(h2, "b.s", "b.s", signerSignatureKey.p)

\* Step 4, the two sides of the check: sg := s*g mod p, rcx := (R + c*X) mod p
BlindCheck(h, publicKey) ==
    LET h1 == Mul(h, "b.sg", "b.s", publicKey.g)
        h2 == Mod(h1, "b.sg", "b.sg", publicKey.p)
        h3 == Mul(h2, "b.cx", "b.c", publicKey.X)
        h4 == Add(h3, "b.rcx", "b.R", "b.cx")
    IN  Mod(h4, "b.rcx", "b.rcx", publicKey.p)

\* The User's signature {R', s'} with s' := (s + alpha) mod p, and its
\* verification
BlindFinalize(h, message, publicKey) ==
    LET h1 == Add(h, "b.sp", "b.s", "b.a")
        h2 == Mod(h1, "b.sp", "b.sp", publicKey.p)
        userSignature == [R |-> "b.RP", s |-> "b.sp"]
    IN  CHOOSE r \in {[heap |-> v.heap, fin |-> TRUE,
                       lines |-> <<BlindHeader, PartialValid,
                                   IF v.ok THEN UserValid ELSE UserInvalid>>] :
                      v \in {VerifySignature(h2, message, userSignature, publicKey)}} :
            TRUE

\* Faulty variant: the return after the "invalid" line is left out.
BlindDecideNoReturn(h, message, publicKey) ==
    CHOOSE r \in {IF Cmp(hh, "b.sg", "b.rcx") = 0
                  THEN BlindFinalize(hh, message, publicKey)
                  ELSE [BlindFinalize(hh, message, publicKey)
                            EXCEPT !.lines = <<BlindHeader, PartialInvalid, @[3]>>] :
                  hh \in {h}} : TRUE

\* Step 4, the decision: sg == rcx, or the "invalid" line and return
BlindDecide(h, message, publicKey) ==
    CHOOSE r \in {IF Cmp(hh, "b.sg", "b.rcx") = 0
                  THEN BlindFinalize(hh, message, publicKey)
                  ELSE [heap |-> hh, fin |-> FALSE,
                        lines |-> <<BlindHeader, PartialInvalid>>] :
                  hh \in {h}} : TRUE

\* BlindSignatureProcess(message, signerSignatureKey, publicKey) with the
\* nonce r and the blinding factors a, b it draws: the heap when it returns,
\* the lines it prints, whether the User's signature was made, and the
\* values its locals held.
BlindSignatureProcess(h, message, signerSignatureKey, publicKey, r, a, b) ==
    LET h1 == BlindCommit(h, publicKey, r)
        h2 == BlindChallenge(h1, message, publicKey, a, b)
        h3 == BlindResponse(h2, signerSignatureKey)
        h4 == BlindCheck(h3, publicKey)
    IN  CHOOSE res \in {[heap |-> Free(d.heap, BlindLocals), fin |-> d.fin,
                         lines |-> d.lines,
                         loc |-> [c \in BlindLocals |-> d.heap[c]]] :
                        d \in {BlindDecide(h4, message, publicKey)}} : TRUE

(***************************** the caller's records ************************)

NoLocals == [c \in BlindLocals |-> 0]

NoCall == [op |-> "none", msg |-> <<>>, key |-> "none", pkey |-> "none",
           ok |-> FALSE, fin |-> FALSE, lines |-> <<>>, loc |-> NoLocals]

NotSigned == [made |-> FALSE, msg |-> <<>>, key |-> "none", R |-> 0, s |-> 0]

InitCommon ==
    /\ heap = [a \in Addr |-> 0]
    /\ keys = {}
    /\ cur = "none"
    /\ signed = NotSigned
    /\ last = NoCall
    /\ out = <<>>
    /\ rnd = <<>>

(***************************** GenerateKeys, step by step ******************)

\* GenerateKeys is called at `here`: rand.Prime draws p, g := big.NewInt(2)
GenCall(k, here) ==
    /\ pc = here
    /\ k \notin keys
    /\ \E q \in Primes : heap' = GroupDraw(heap, k, q)
    /\ cur' = k
    /\ pc' = "gen_loop"
    /\ UNCHANGED <<keys, signed, last, out, rnd>>

\* One turn of the loop: g.Exp(g, p, p) returns its receiver g, which is
\* then compared with g; break, or g := g + 1.
GenLoop ==
    /\ pc = "gen_loop"
    /\ \E h1 \in {GroupTest(heap, cur)} :
         IF Cmp(h1, KeyCell[cur].g, KeyCell[cur].g) = 0
         THEN heap' = h1 /\ pc' = "gen_x"
         ELSE heap' = Set(h1, KeyCell[cur].g, h1[KeyCell[cur].g] + 1)
              /\ pc' = "gen_loop"
    /\ UNCHANGED <<keys, cur, signed, last, out, rnd>>

\* rand.Int draws x in [0, p), X := x * g, and GenerateKeys returns to `after`
GenFinish(after) ==
    /\ pc = "gen_x"
    /\ \E x \in 0..(heap[KeyCell[cur].p] - 1) : heap' = KeyDraw(heap, cur, x)
    /\ keys' = keys \cup {cur}
    /\ cur' = "none"
    /\ pc' = after
    /\ UNCHANGED <<signed, last, out, rnd>>

(***************************** a caller of the package *********************)

\* The caller holds no result of an earlier call.
Fresh == ~signed.made /\ last.op = "none"

NextSlot == IF "K1" \notin keys THEN "K1" ELSE "K2"

GenerateKeysCall == Fresh /\ GenCall(NextSlot, "idle")

GenerateKeysLoop == GenLoop

GenerateKeysReturn == GenFinish("idle")

SignCall ==
    /\ pc = "idle"
    /\ Fresh
    /\ "K1" \in keys
    /\ \E m \in Messages, r \in 0..(heap[KeyCell["K1"].p] - 1) :
         \E h \in {Sign(heap, m, SignatureKey("K1"), r)} :
             /\ heap' = h
             /\ signed' = [made |-> TRUE, msg |-> m, key |-> "K1",
                           R |-> h[SignResult.R], s |-> h[SignResult.s]]
             /\ last' = [NoCall EXCEPT !.op = "Sign", !.msg = m, !.key = "K1"]
    /\ UNCHANGED <<keys, cur, pc, out, rnd>>

\* The caller changes the commitment or the response of the signature it
\* holds: by one, or by the order p of the key that signed.
TamperCall ==
    /\ pc = "idle"
    /\ signed.made
    /\ heap[SignResult.R] = signed.R /\ heap[SignResult.s] = signed.s
    /\ \E c \in {SignResult.R, SignResult.s} :
         \E d \in {1, heap[KeyCell[signed.key].p], -heap[KeyCell[signed.key].p]} :
             heap' = Set(heap, c, heap[c] + d)
    /\ last' = [NoCall EXCEPT !.op = "Tamper"]
    /\ UNCHANGED <<keys, cur, pc, signed, out, rnd>>

VerifyCall ==
    /\ pc = "idle"
    /\ signed.made
    /\ \E k \in keys, m \in Messages :
         \E v \in {VerifySignature(heap, m, SignResult, PublicKey(k))} :
             /\ heap' = v.heap
             /\ last' = [NoCall EXCEPT !.op = "Verify", !.msg = m, !.pkey = k,
                                       !.ok = v.ok]
    /\ UNCHANGED <<keys, cur, pc, signed, out, rnd>>

\* One session.  A caller with one key pair may follow a session on "hello"
\* by a session on another message in which rand.Int draws the same nonce r
\* again; every other session starts from a caller that holds no result.
BlindCall ==
    /\ pc = "idle"
    /\ ~signed.made
    /\ last.op \in {"none", "Blind"}
    /\ \E ks \in keys \cap {"K1"}, kp \in keys, m \in Messages :
         \E r \in 0..(heap[KeyCell[kp].p] - 1) :
           /\ last.op = "Blind" =>
                /\ keys = {"K1"}
                /\ last.msg = Hello /\ m # Hello
                /\ r = last.loc["b.r"]
           /\ \E a \in 0..(heap[KeyCell[kp].p] - 1), b \in 0..(heap[KeyCell[kp].p] - 1) :
               \E res \in {BlindSignatureProcess(heap, m, SignatureKey(ks),
                                                  PublicKey(kp), r, a, b)} :
                   /\ heap' = res.heap
                   /\ last' = [NoCall EXCEPT !.op = "Blind", !.msg = m,
                                   !.key = ks, !.pkey = kp, !.fin = res.fin,
                                   !.lines = res.lines, !.loc = res.loc]
    /\ UNCHANGED <<keys, cur, pc, signed, out, rnd>>

\* The caller lets go of the signature and of the results it holds.
Forget ==
    /\ pc = "idle"
    /\ ~Fresh
    /\ heap' = Free(heap, SigCells)
    /\ signed' = NotSigned
    /\ last' = NoCall
    /\ UNCHANGED <<keys, cur, pc, out, rnd>>

Init == InitCommon /\ pc = "idle"

Next ==
    \/ GenerateKeysCall
    \/ GenerateKeysLoop
    \/ GenerateKeysReturn
    \/ SignCall
    \/ TamperCall
    \/ VerifyCall
    \/ BlindCall
    \/ Forget

Spec == Init /\ [][Next]_vars

(***************************** main ****************************************)

SchnorrHeader == "### Schnorr signature ###"

MessageLine == "Message to sign: "

CreatedLine == "Created signature:"

SignatureValid == "Signature is valid. Schnorr signature alghoritm is working!"

SignatureInvalid == "Signature is invalid. Schnorr singature alghoritm is not working!"

MainStart ==
    /\ pc = "start"
    /\ out' = <<SchnorrHeader, MessageLine>>
    /\ pc' = "keys"
    /\ UNCHANGED <<heap, keys, cur, signed, last, rnd>>

MainGenerateKeys == GenCall("K1", "keys")

MainGenerateKeysLoop == GenLoop

MainGenerateKeysReturn == GenFinish("sign")

MainSign ==
    /\ pc = "sign"
    /\ \E r \in 0..(heap[KeyCell["K1"].p] - 1) :
         \E h \in {Sign(heap, Hello, SignatureKey("K1"), r)} :
             /\ heap' = h
             /\ signed' = [made |-> TRUE, msg |-> Hello, key |-> "K1",
                           R |-> h[SignResult.R], s |-> h[SignResult.s]]
    /\ last' = [NoCall EXCEPT !.op = "Sign", !.msg = Hello, !.key = "K1"]
    /\ pc' = "print"
    /\ UNCHANGED <<keys, cur, out, rnd>>

MainPrint ==
    /\ pc = "print"
    /\ out' = Append(out, CreatedLine)
    /\ pc' = "verify"
    /\ UNCHANGED <<heap, keys, cur, signed, last, rnd>>

MainVerify ==
    /\ pc = "verify"
    /\ \E v \in {VerifySignature(heap, Hello, SignResult, PublicKey("K1"))} :
         /\ heap' = v.heap
         /\ last' = [NoCall EXCEPT !.op = "Verify", !.msg = Hello,
                                   !.pkey = "K1", !.ok = v.ok]
    /\ pc' = "report"
    /\ UNCHANGED <<keys, cur, signed, out, rnd>>

\* Faulty variant: the condition is inverted.
MainBranchInverted(isSignatureValid) ==
    IF ~isSignatureValid
    THEN [line |-> SignatureValid, pc |-> "blind"]
    ELSE [line |-> SignatureInvalid, pc |-> "done"]

\* if isSignatureValid { Println(...) } else { Println(...); return }
MainBranch(isSignatureValid) ==
    IF isSignatureValid
    THEN [line |-> SignatureValid, pc |-> "blind"]
    ELSE [line |-> SignatureInvalid, pc |-> "done"]

MainReport ==
    /\ pc = "report"
    /\ \E br \in {MainBranch(last.ok)} :
         /\ out' = Append(out, br.line)
         /\ pc' = br.pc
    /\ UNCHANGED <<heap, keys, cur, signed, last, rnd>>

\* What rand.Int will yield for r, a and b in the session main starts
MainBlindRand ==
    /\ pc = "blind"
    /\ \E r \in 0..(heap[KeyCell["K1"].p] - 1),
          a \in 0..(heap[KeyCell["K1"].p] - 1),
          b \in 0..(heap[KeyCell["K1"].p] - 1) : rnd' = <<r, a, b>>
    /\ pc' = "blind_run"
    /\ UNCHANGED <<heap, keys, cur, signed, last, out>>

MainBlind ==
    /\ pc = "blind_run"
    /\ \E res \in {BlindSignatureProcess(heap, Hello, SignatureKey("K1"),
                                        PublicKey("K1"), rnd[1], rnd[2], rnd[3])} :
         /\ heap' = res.heap
         /\ out' = out \o res.lines
         /\ last' = [NoCall EXCEPT !.op = "Blind", !.msg = Hello,
                         !.key = "K1", !.pkey = "K1", !.fin = res.fin,
                         !.lines = res.lines, !.loc = res.loc]
    /\ rnd' = <<>>
    /\ pc' = "done"
    /\ UNCHANGED <<keys, cur, signed>>

MainInit == InitCommon /\ pc = "start"

MainNext ==
    \/ MainStart
    \/ MainGenerateKeys
    \/ MainGenerateKeysLoop
    \/ MainGenerateKeysReturn
    \/ MainSign
    \/ MainPrint
    \/ MainVerify
    \/ MainReport
    \/ MainBlindRand
    \/ MainBlind

\* A started program runs on until main returns.
MainSpec == MainInit /\ [][MainNext]_vars /\ WF_vars(MainNext)

(***************************** properties **********************************)

\* The signature the caller holds is the one Sign returned.
Untampered ==
    /\ heap[SignResult.R] = signed.R
    /\ heap[SignResult.s] = signed.s

\* The order, the generator and the public value of the public key the
\* last call was given
LastP == heap[KeyCell[last.pkey].p]

LastG == heap[KeyCell[last.pkey].g]

LastX == heap[KeyCell[last.pkey].X]

\* The step-4 check of the last session, recomputed from the values the
\* session held: s*g mod p = (R + c*X) mod p
StepFourHolds ==
    (last.loc["b.s"] * LastG) % LastP
        = (last.loc["b.R"] + last.loc["b.c"] * LastX) % LastP

\* C1.  Completeness: when VerifySignature is given the message that was
\* signed, the signature as Sign returned it and the public key of the
\* signing key, it returns true, whatever the key pair, message and nonce.
C1_Completeness ==
    (/\ last.op = "Verify"
     /\ Untampered
     /\ last.msg = signed.msg
     /\ last.pkey = signed.key) => last.ok

C1_Witness ==
    /\ last.op = "Verify"
    /\ Untampered
    /\ last.msg = signed.msg
    /\ last.pkey = signed.key
    /\ last.ok
    /\ heap[KeyCell[signed.key].x] > 1
    /\ signed.R > 0
    /\ signed.s > 0

\* C2.  Blind-protocol completeness: a session run with a signing key and
\* its own public key reaches the finalization, with R' = R + alpha*g +
\* beta*X and s' = (s + alpha) mod p, and VerifySignature accepts {R', s'}
\* for the message: the session prints that both signatures are valid.
C2_BlindCompleteness ==
    (last.op = "Blind" /\ last.key = last.pkey) =>
        /\ last.fin
        /\ last.loc["b.RP"] = last.loc["b.R"] + last.loc["b.a"] * LastG
                                + last.loc["b.b"] * LastX
        /\ last.loc["b.sp"] = (last.loc["b.s"] + last.loc["b.a"]) % LastP
        /\ (last.loc["b.sp"] * LastG) % LastP
             = (last.loc["b.RP"]
                + SetBytes(hash(String(last.loc["b.RP"]) \o last.msg)) * LastX)
               % LastP
        /\ last.lines = <<BlindHeader, PartialValid, UserValid>>

C2_Witness ==
    /\ last.op = "Blind"
    /\ last.key = last.pkey
    /\ last.fin
    /\ last.lines = <<BlindHeader, PartialValid, UserValid>>
    /\ last.loc["b.r"] > 0
    /\ last.loc["b.a"] > 0
    /\ last.loc["b.b"] > 0
    /\ heap[KeyCell[last.key].x] > 1

\* C3.  Protocol-violation detection: a session whose response s fails the
\* step-4 check prints the "invalid" line and returns without computing s'
\* or making the User's signature; a session that makes the User's
\* signature has passed the check.
C3_ViolationDetected ==
    last.op = "Blind" =>
        /\ ~StepFourHolds =>
              /\ ~last.fin
              /\ last.lines = <<BlindHeader, PartialInvalid>>
              /\ last.loc["b.sp"] = 0
        /\ last.fin =>
              /\ StepFourHolds
              /\ last.lines[2] = PartialValid

C3_Witness ==
    /\ last.op = "Blind"
    /\ ~StepFourHolds
    /\ ~last.fin
    /\ last.lines = <<BlindHeader, PartialInvalid>>

\* C4.  Blindness of the Signer's step: when a session follows a session
\* of the same signing key in which the Signer held the same nonce r and
\* received the same challenge c, the Signer's response s is the same,
\* whatever the message, alpha, beta and R' of the two sessions were.
C4_SignerView ==
    [][(/\ last.op = "Blind"
        /\ last'.op = "Blind"
        /\ last'.key = last.key
        /\ last'.loc["b.r"] = last.loc["b.r"]
        /\ last'.loc["b.c"] = last.loc["b.c"])
       => last'.loc["b.s"] = last.loc["b.s"]]_vars

\* A session after which a session with the same r and c, and another
\* message, alpha, beta and R', can follow.
C4_Witness ==
    /\ last.op = "Blind"
    /\ last.fin
    /\ ENABLED (/\ BlindCall
                /\ last'.key = last.key
                /\ last'.loc["b.r"] = last.loc["b.r"]
                /\ last'.loc["b.c"] = last.loc["b.c"]
                /\ last'.msg # last.msg
                /\ last'.loc["b.a"] # last.loc["b.a"]
                /\ last'.loc["b.b"] # last.loc["b.b"]
                /\ last'.loc["b.RP"] # last.loc["b.RP"])

\* C5.  VerifySignature does not accept a signature whose response s lies
\* outside [0, p).
C5_OutOfRangeRejected ==
    (/\ last.op = "Verify"
     /\ heap[SignResult.s] \notin 0..(LastP - 1)) => ~last.ok

\* C6.  Tamper-sensitivity: with the public key of the signing key,
\* VerifySignature returns false when the message, the commitment R or the
\* response s differs from what was signed and returned.
C6_TamperRejected ==
    (/\ last.op = "Verify"
     /\ last.pkey = signed.key
     /\ (last.msg # signed.msg \/ ~Untampered)) => ~last.ok

\* The lines of a whole run of main, in order
DemoOrder ==
    /\ Len(out) = 7
    /\ out[1] = SchnorrHeader
    /\ out[2] = MessageLine
    /\ out[3] = CreatedLine
    /\ out[4] \in {SignatureValid, SignatureInvalid}
    /\ out[5] = BlindHeader
    /\ out[6] \in {PartialValid, PartialInvalid}
    /\ out[7] \in {UserValid, UserInvalid}

\* C7.  Demo ordering: every run of main returns, and when it has, it has
\* generated the keys, signed "hello", printed the signature, verified it
\* and printed a pass/fail line, and run one blind session that printed a
\* pass/fail line for the Signer's signature and then one for the User's.
C7_DemoOrdering ==
    /\ [](pc = "done" =>
            /\ "K1" \in keys
            /\ signed.made /\ signed.msg = Hello
            /\ last.op = "Blind" /\ last.msg = Hello
            /\ DemoOrder)
    /\ <>(pc = "done")

C7_Witness ==
    /\ pc = "done"
    /\ DemoOrder
    /\ out[7] = UserValid

C9_GeneratorSearch ==
    /\ [](pc \notin {"start", "keys", "gen_loop"} =>
            ExpMod(heap[KeyCell["K1"].g], heap[KeyCell["K1"].p],
                   heap[KeyCell["K1"].p]) = heap[KeyCell["K1"].g])
    /\ [](pc = "gen_loop" => <>(pc = "gen_x"))

C9_Witness ==
    /\ pc = "gen_x"
    /\ heap[KeyCell["K1"].p] = 5
    /\ heap[KeyCell["K1"].g] = 2

\* C10.  In every key pair GenerateKeys returned, x is in [0, p) and X is
\* the integer product x*g, not reduced: g divides X and X / g is x.
C10_PublicKeyUnreduced ==
    \A k \in keys :
        /\ heap[KeyCell[k].x] \in 0..(heap[KeyCell[k].p] - 1)
        /\ heap[KeyCell[k].X] = heap[KeyCell[k].x] * heap[KeyCell[k].g]
        /\ heap[KeyCell[k].g] # 0 =>
              /\ heap[KeyCell[k].X] % heap[KeyCell[k].g] = 0
              /\ heap[KeyCell[k].X] \div heap[KeyCell[k].g] = heap[KeyCell[k].x]

C10_Witness ==
    /\ "K1" \in keys
    /\ heap[KeyCell["K1"].x] > 0
    /\ heap[KeyCell["K1"].X] >= heap[KeyCell["K1"].p]

=============================================================================
